---- MODULE Spec2Model ----
(***************************************************************************)
(* Model of main.py of portfolio-news-agent: the two run modes (run_daily, *)
(* run_breaking), the fingerprint function item_id and the seen-set store  *)
(* load_seen / save_seen on seen.json.                                     *)
(*                                                                         *)
(* Strings are sequences of one-character strings.  A digest is the        *)
(* sequence of the UTF-8 byte values of the hashed input: SHA-256 is       *)
(* idealised as collision free, so a digest is identified with the bytes   *)
(* it was computed from; the concatenation that builds those bytes is      *)
(* modelled character by character.                                        *)
(***************************************************************************)
EXTENDS Integers, Sequences, FiniteSets, TLC

VARIABLES
    file,          \* seen.json: [exists, text], text a sequence of JSON tokens
    mode,          \* MODE of the running process
    pc,            \* position of the running process
    exit,          \* how the last run ended
    idx,           \* index of the next ticker of the for loop
    seen,          \* run_breaking: the in-memory set `seen`
    seen0,         \* run_breaking: the value load_seen returned at line 193
    new_items,     \* run_breaking: the list `new_items`
    all_items,     \* run_daily: the list `all_items`
    news_items,    \* the list handed to llm_analyze (argument news_items)
    compact,       \* the batch llm_analyze put into the request to the model
    content,       \* the text the model returned
    emails,        \* number of send_email calls that reached sg.send in this run
    llmCalls,      \* number of llm_analyze calls in this run
    saveCalls,     \* number of save_seen calls in this run
    fetchFailed,   \* tickers whose finnhub_news call raised in this run
    itemFailed,    \* tickers whose classification loop raised in this run
    lastOutcome,   \* outcome of the ticker processed last
    classified,    \* fingerprints computed by item_id in this run
    onDiskAtStart, \* fingerprints load_seen found at the start of some run so far
    itemA, itemB,  \* fingerprint check: the two items
    idA, idB,      \* fingerprint check: their fingerprints
    idPhase        \* fingerprint check: "input" or "hashed"

runVars == <<mode, pc, exit, idx, seen, seen0, new_items, all_items, news_items,
             compact, content, emails, llmCalls, saveCalls, fetchFailed,
             itemFailed, lastOutcome, classified>>
idVars == <<itemA, itemB, idA, idB, idPhase>>
vars == <<file, runVars, onDiskAtStart, idVars>>

(***************************************************************************)
(* Bounds                                                                  *)
(***************************************************************************)
MaxHeadlines == 1     \* distinct ordinary headlines the news API has per ticker
MaxFieldLen == 1      \* longest headline / url of the fingerprint check

(***************************************************************************)
(* Strings                                                                 *)
(***************************************************************************)
Min(a, b) == IF a < b THEN a ELSE b

\* the value Python's None has in a field that the API returned as JSON null
None == <<"None">>

\* ord(c) of the characters that reach a hashed input
Ord(c) ==
    CASE c = "|" -> 124
      [] c = "0" -> 48 [] c = "1" -> 49 [] c = "2" -> 50 [] c = "3" -> 51
      [] c = "4" -> 52 [] c = "5" -> 53 [] c = "6" -> 54 [] c = "7" -> 55
      [] c = "8" -> 56 [] c = "9" -> 57
      [] c = "A" -> 65 [] c = "B" -> 66
      [] c = "a" -> 97 [] c = "d" -> 100 [] c = "h" -> 104 [] c = "u" -> 117
      [] OTHER -> 63

\* s.encode("utf-8")
Utf8Encode(s) == [i \in 1..Len(s) |-> Ord(s[i])]

\* lexicographic order of two sequences of naturals (str.__lt__ on digests,
\* and on datetime strings once encoded)
RECURSIVE LexLess(_, _)
LexLess(a, b) ==
    IF b = <<>> THEN FALSE
    ELSE IF a = <<>> THEN TRUE
    ELSE IF Head(a) < Head(b) THEN TRUE
    ELSE IF Head(a) > Head(b) THEN FALSE
    ELSE LexLess(Tail(a), Tail(b))

\* `sub in s`
Contains(sub, s) ==
    \E i \in 1..(Len(s) - Len(sub) + 1) : SubSeq(s, i, i + Len(sub) - 1) = sub

\* all strings over alphabet of length at most n
RECURSIVE StringsUpTo(_, _)
StringsUpTo(alphabet, n) ==
    IF n = 0 THEN {<<>>}
    ELSE LET shorter == StringsUpTo(alphabet, n - 1)
         IN shorter \cup {Append(s, c) : s \in shorter, c \in alphabet}

Range(s) == {s[i] : i \in 1..Len(s)}

(***************************************************************************)
(* item_id (lines 76-83)                                                   *)
(***************************************************************************)
FingerprintFields == <<"symbol", "headline", "datetime", "url">>

\* str + None raises TypeError
item_id_raises(item) == \E i \in 1..4 : item[FingerprintFields[i]] = None

\* (variant) the separators after the first one are left out
RawUnseparated(item) ==
    item.symbol \o <<"|">> \o item.headline \o item.datetime \o item.url

Raw(item) ==
    item.symbol \o <<"|">> \o item.headline \o <<"|">> \o item.datetime
        \o <<"|">> \o item.url

Sha256Hex(bytes) == bytes

item_id(item) == Sha256Hex(Utf8Encode(Raw(item)))

(***************************************************************************)
(* seen.json: json.dump / json.load, save_seen / load_seen (lines 65-74)   *)
(***************************************************************************)
LB == [t |-> "[", v |-> <<>>]
RB == [t |-> "]", v |-> <<>>]
COMMA == [t |-> ",", v |-> <<>>]
Str(d) == [t |-> "str", v |-> d]

\* sorted(list(seen)): the element with k smaller elements goes to place k + 1
Sorted(S) ==
    LET ranked == {<<Cardinality({y \in S : LexLess(y, x)}) + 1, x>> : x \in S}
    IN [p \in 1..Cardinality(S) |-> (CHOOSE r \in ranked : r[1] = p)[2]]

\* (variant) a comma is written after every element, the last one included
JsonDumpTrailingComma(list) ==
    <<LB>> \o [i \in 1..(2 * Len(list)) |->
                  IF i % 2 = 1 THEN Str(list[(i + 1) \div 2]) ELSE COMMA] \o <<RB>>

\* json.dump of a list of strings: [ s1 , s2 , ... ]
JsonDump(list) ==
    IF list = <<>> THEN <<LB, RB>>
    ELSE [i \in 1..(2 * Len(list) + 1) |->
            IF i = 1 THEN LB
            ELSE IF i = 2 * Len(list) + 1 THEN RB
            ELSE IF i % 2 = 0 THEN Str(list[i \div 2])
            ELSE COMMA]

\* json.load succeeds on this text and yields a list of strings
JsonIsList(text) ==
    /\ Len(text) >= 2
    /\ text[1] = LB
    /\ text[Len(text)] = RB
    /\ \/ Len(text) = 2
       \/ /\ Len(text) % 2 = 1
          /\ \A i \in 2..(Len(text) - 1) :
                IF i % 2 = 0 THEN text[i].t = "str" ELSE text[i] = COMMA

JsonList(text) == [i \in 1..((Len(text) - 1) \div 2) |-> text[2 * i].v]

MissingFile == [exists |-> FALSE, text |-> <<>>]
FileWith(text) == [exists |-> TRUE, text |-> text]

\* load_seen: set(json.load(f)), or set() on any exception
load_seen(f) ==
    IF f.exists /\ JsonIsList(f.text) THEN Range(JsonList(f.text)) ELSE {}

\* what a completed save_seen leaves in the file
SavedText(S) == JsonDump(Sorted(S))

\* what the file can hold when the write is cut short after open(path, "w"):
\* nothing, the first half of the text, or all of it but the closing bracket
PartialTexts(S) ==
    LET full == SavedText(S)
    IN {SubSeq(full, 1, n) : n \in {0, Len(full) \div 2, Len(full) - 1}}

(***************************************************************************)
(* Configuration and the external collaborators                            *)
(***************************************************************************)
\* tickers after the split / strip / upper of lines 158 and 190
Tickers == <<(<<"A">>), (<<"B">>)>>

\* news_items[:80] of llm_analyze
PayloadLimit == 80

Digit(n) ==
    CASE n = 0 -> "0" [] n = 1 -> "1" [] n = 2 -> "2" [] n = 3 -> "3"
      [] n = 4 -> "4" [] n = 5 -> "5" [] n = 6 -> "6" [] n = 7 -> "7"
      [] n = 8 -> "8" [] OTHER -> "9"

ErrorCategory == <<"e", "r", "r", "o", "r">>
SystemSource == <<"s", "y", "s", "t", "e", "m">>
NowStamp == <<"9">>

\* the dict finnhub_news builds for one article (lines 54-62)
NewsItem(t, h, d, u) ==
    [symbol |-> t, headline |-> h, summary |-> <<>>, source |-> <<>>,
     url |-> u, datetime |-> d, category |-> <<>>]

\* the dict run_daily builds when the fetch of ticker t raised (lines 166-174)
ErrorItem(t) ==
    [symbol |-> t, headline |-> <<"[">> \o t \o <<"]">>, summary |-> <<"e">>,
     source |-> SystemSource, url |-> <<>>, datetime |-> NowStamp,
     category |-> ErrorCategory]

\* articles the news API can have for ticker t
Ordinary(t) ==
    {NewsItem(t, <<"h", Digit(k)>>, <<Digit(k)>>, <<"u">>) : k \in 1..MaxHeadlines}
\* an article whose headline is JSON null: it.get("headline", "") is None
NullHeadline(t) == NewsItem(t, None, <<"1">>, <<"u">>)
\* a burst of PayloadLimit + 1 distinct articles
BigFeed(t) ==
    [i \in 1..(PayloadLimit + 1) |->
        NewsItem(t, <<Digit(i \div 10), Digit(i % 10)>>, <<Digit(i % 10)>>, <<"u">>)]

\* the lists finnhub_news can return for ticker t: up to two articles, with
\* repeats, any of them possibly with a null headline
Feeds(t) ==
    LET one == Ordinary(t) \cup {NullHeadline(t)}
    IN {<<>>} \cup {<<a>> : a \in one} \cup {<<a, b>> : a \in one, b \in one}

\* the lists finnhub_news can return for ticker t on a day when the first
\* ticker has a burst of news
BurstFeeds(t) ==
    {<<>>} \cup {<<a>> : a \in Ordinary(t)}
        \cup {<<a, NullHeadline(t), a>> : a \in Ordinary(t)}
        \cup (IF t = Tickers[1] THEN {BigFeed(t)} ELSE {})

\* texts the model can return
NoAlertText ==
    <<"N", "O", " ", "A", "L", "E", "R", "T", " ", "b", "e", "c", "a", "u", "s", "e",
      " ", "s", "e", "v", "e", "r", "i", "t", "y", " ", "i", "s", " ", "l", "o", "w", ".">>
AlertText == <<"A", "L", "E", "R", "T", ":", " ", "s", "e", "l", "l">>
PlainText == <<"S", "e", "v", "e", "r", "i", "t", "y", " ", "4", "0">>
ModelTexts == {NoAlertText, AlertText, PlainText}
NO_ALERT == <<"N", "O", " ", "A", "L", "E", "R", "T">>
ALERT == <<"A", "L", "E", "R", "T">>

\* list.sort(key=lambda x: x.get("datetime", ""), reverse=True): stable,
\* descending by the datetime string
DtKey(item) == Utf8Encode(item.datetime)

\* place of list[i] after the sort: behind every item with a greater key and
\* behind the earlier items with the same key
SortedPlace(list, i) ==
    Cardinality({j \in 1..Len(list) : LexLess(DtKey(list[i]), DtKey(list[j]))})
      + Cardinality({j \in 1..(i - 1) : DtKey(list[j]) = DtKey(list[i])}) + 1

SortByDatetimeDesc(list) ==
    LET placed == {<<SortedPlace(list, i), i>> : i \in 1..Len(list)}
    IN [p \in 1..Len(list) |-> list[(CHOOSE r \in placed : r[1] = p)[2]]]

\* (variant) the slice is one short
CompactOffByOne(list) == SubSeq(list, 1, Min(Len(list), PayloadLimit - 1))

\* compact = news_items[:80]
Compact(list) == SubSeq(list, 1, Min(Len(list), PayloadLimit))

(***************************************************************************)
(* The classification loop of run_breaking (lines 199-203)                 *)
(***************************************************************************)
\* the k-th smallest member of a set of indices
Nth(I, k) == CHOOSE i \in I : Cardinality({j \in I : j <= i}) = k

\* the loop over `items`, entered with new_items = new and seen = seenIn.  It
\* stops at the first item on which item_id raises; an item is appended when
\* its fingerprint is not in seenIn and no earlier item of the list had it
\* (the earlier one put it into `seen`)
Classify(items, new, seenIn, ids) ==
    LET raising == {i \in 1..Len(items) : item_id_raises(items[i])}
        stop == IF raising = {} THEN Len(items) + 1 ELSE Nth(raising, 1)
        reached == 1..(stop - 1)
        kept == {i \in reached :
                    /\ item_id(items[i]) \notin seenIn
                    /\ \A j \in 1..(i - 1) : item_id(items[j]) # item_id(items[i])}
    IN [new |-> new \o [p \in 1..Cardinality(kept) |-> items[Nth(kept, p)]],
        seen |-> seenIn \cup {item_id(items[i]) : i \in kept},
        ids |-> ids \cup {item_id(items[i]) : i \in reached},
        raised |-> raising # {}]

(***************************************************************************)
(* Start of a run: __main__ (lines 222-229), env (lines 11-15),            *)
(* the configuration block of run_daily / run_breaking                     *)
(***************************************************************************)
Idle == pc \in {"idle", "done"}

\* the run-local state of a process that has just started
FreshRun ==
    /\ idx' = 1
    /\ new_items' = <<>>
    /\ all_items' = <<>>
    /\ news_items' = <<>>
    /\ compact' = <<>>
    /\ content' = <<>>
    /\ emails' = 0
    /\ llmCalls' = 0
    /\ saveCalls' = 0
    /\ fetchFailed' = {}
    /\ itemFailed' = {}
    /\ lastOutcome' = "none"
    /\ classified' = {}

\* a required variable is missing, or MODE is neither daily nor breaking
StartMisconfigured ==
    /\ Idle
    /\ FreshRun
    /\ mode' = "none"
    /\ pc' = "done"
    /\ exit' = "config_error"
    /\ seen' = {}
    /\ seen0' = {}
    /\ UNCHANGED <<file, onDiskAtStart, idVars>>

StartDaily ==
    /\ Idle
    /\ FreshRun
    /\ mode' = "daily"
    /\ pc' = "d_fetch"
    /\ exit' = "running"
    /\ seen' = {}
    /\ seen0' = {}
    /\ UNCHANGED <<file, onDiskAtStart, idVars>>

\* run_breaking up to and including seen = load_seen("seen.json")
StartBreaking ==
    /\ Idle
    /\ FreshRun
    /\ mode' = "breaking"
    /\ pc' = "b_fetch"
    /\ exit' = "running"
    /\ seen' = load_seen(file)
    /\ seen0' = load_seen(file)
    /\ onDiskAtStart' = onDiskAtStart \cup load_seen(file)
    /\ UNCHANGED <<file, idVars>>

(***************************************************************************)
(* run_daily (lines 161-180)                                               *)
(***************************************************************************)
\* (variant) a failed fetch is skipped as in run_breaking
DailyFetchSkipping ==
    /\ pc = "d_fetch"
    /\ idx <= Len(Tickers)
    /\ LET t == Tickers[idx] IN
       \/ /\ fetchFailed' = fetchFailed \cup {t}
          /\ lastOutcome' = "fetch_error"
          /\ UNCHANGED all_items
       \/ /\ \E f \in Feeds(t) : all_items' = all_items \o f
          /\ lastOutcome' = "ok"
          /\ UNCHANGED fetchFailed
    /\ idx' = idx + 1
    /\ UNCHANGED <<file, mode, pc, exit, seen, seen0, new_items, news_items, compact,
                   content, emails, llmCalls, saveCalls, itemFailed, classified,
                   onDiskAtStart, idVars>>

\* one iteration of the for loop: finnhub_news raises, or returns a list
DailyFetch ==
    /\ pc = "d_fetch"
    /\ idx <= Len(Tickers)
    /\ LET t == Tickers[idx] IN
       \/ /\ all_items' = Append(all_items, ErrorItem(t))
          /\ fetchFailed' = fetchFailed \cup {t}
          /\ lastOutcome' = "fetch_error"
       \/ /\ \E f \in Feeds(t) : all_items' = all_items \o f
          /\ lastOutcome' = "ok"
          /\ UNCHANGED fetchFailed
    /\ idx' = idx + 1
    /\ UNCHANGED <<file, mode, pc, exit, seen, seen0, new_items, news_items, compact,
                   content, emails, llmCalls, saveCalls, itemFailed, classified,
                   onDiskAtStart, idVars>>

\* all_items.sort(...) and llm_analyze(..., mode="daily")
DailyAnalyze ==
    /\ pc = "d_fetch"
    /\ idx > Len(Tickers)
    /\ all_items' = SortByDatetimeDesc(all_items)
    /\ llmCalls' = llmCalls + 1
    /\ news_items' = all_items'
    /\ compact' = Compact(all_items')
    /\ \/ /\ content' = <<"B", "r", "i", "e", "f">>
          /\ pc' = "d_send"
          /\ UNCHANGED exit
       \/ /\ pc' = "done"
          /\ exit' = "error"
          /\ UNCHANGED content
    /\ UNCHANGED <<file, mode, idx, seen, seen0, new_items, emails, saveCalls,
                   fetchFailed, itemFailed, lastOutcome, classified,
                   onDiskAtStart, idVars>>

\* send_email: the mail goes out, or the transport raises
DailySend ==
    /\ pc = "d_send"
    /\ pc' = "done"
    /\ \/ /\ emails' = emails + 1
          /\ exit' = "daily_sent"
       \/ /\ exit' = "error"
          /\ UNCHANGED emails
    /\ UNCHANGED <<file, mode, idx, seen, seen0, new_items, all_items, news_items,
                   compact, content, llmCalls, saveCalls, fetchFailed,
                   itemFailed, lastOutcome, classified, onDiskAtStart, idVars>>

(***************************************************************************)
(* run_breaking (lines 195-220)                                            *)
(***************************************************************************)
\* (variant) a failed fetch is turned into an error item as in run_daily
BreakingFetchOfSynthesizing(feeds) ==
    /\ pc = "b_fetch"
    /\ idx <= Len(Tickers)
    /\ LET t == Tickers[idx] IN
       \/ /\ fetchFailed' = fetchFailed \cup {t}
          /\ lastOutcome' = "fetch_error"
          /\ new_items' = Append(new_items, ErrorItem(t))
          /\ UNCHANGED <<seen, classified, itemFailed>>
       \/ \E f \in feeds[t] :
            LET st == Classify(f, new_items, seen, classified)
            IN /\ new_items' = st.new
               /\ seen' = st.seen
               /\ classified' = st.ids
               /\ itemFailed' = IF st.raised THEN itemFailed \cup {t} ELSE itemFailed
               /\ lastOutcome' = IF st.raised THEN "item_error" ELSE "ok"
               /\ UNCHANGED fetchFailed
    /\ idx' = idx + 1
    /\ UNCHANGED <<file, mode, pc, exit, seen0, all_items, news_items, compact,
                   content, emails, llmCalls, saveCalls, onDiskAtStart, idVars>>

\* one iteration of the for loop over the tickers (lines 196-205): the try
\* block ends by finnhub_news raising, by item_id raising, or normally;
\* feeds[t] are the lists finnhub_news can return for ticker t
BreakingFetchOf(feeds) ==
    /\ pc = "b_fetch"
    /\ idx <= Len(Tickers)
    /\ LET t == Tickers[idx] IN
       \/ /\ fetchFailed' = fetchFailed \cup {t}
          /\ lastOutcome' = "fetch_error"
          /\ UNCHANGED <<new_items, seen, classified, itemFailed>>
       \/ \E f \in feeds[t] :
            LET st == Classify(f, new_items, seen, classified)
            IN /\ new_items' = st.new
               /\ seen' = st.seen
               /\ classified' = st.ids
               /\ itemFailed' = IF st.raised THEN itemFailed \cup {t} ELSE itemFailed
               /\ lastOutcome' = IF st.raised THEN "item_error" ELSE "ok"
               /\ UNCHANGED fetchFailed
    /\ idx' = idx + 1
    /\ UNCHANGED <<file, mode, pc, exit, seen0, all_items, news_items, compact,
                   content, emails, llmCalls, saveCalls, onDiskAtStart, idVars>>

BreakingFetch == BreakingFetchOf([t \in Range(Tickers) |-> Feeds(t)])

BreakingFetchBurst == BreakingFetchOf([t \in Range(Tickers) |-> BurstFeeds(t)])

\* (variant) the return for an empty new_items comes before save_seen
SaveSeenOpenUnlessEmpty ==
    /\ pc = "b_fetch"
    /\ idx > Len(Tickers)
    /\ IF new_items = <<>>
       THEN /\ pc' = "done"
            /\ exit' = "no_new"
            /\ UNCHANGED <<file, saveCalls>>
       ELSE /\ file' = FileWith(<<>>)
            /\ saveCalls' = saveCalls + 1
            /\ pc' = "b_dump"
            /\ UNCHANGED exit
    /\ UNCHANGED <<mode, idx, seen, seen0, new_items, all_items, news_items,
                   compact, content, emails, llmCalls, fetchFailed, itemFailed,
                   lastOutcome, classified, onDiskAtStart, idVars>>

\* save_seen, first half: open(path, "w") truncates seen.json (line 73)
SaveSeenOpen ==
    /\ pc = "b_fetch"
    /\ idx > Len(Tickers)
    /\ file' = FileWith(<<>>)
    /\ saveCalls' = saveCalls + 1
    /\ pc' = "b_dump"
    /\ UNCHANGED <<mode, exit, idx, seen, seen0, new_items, all_items, news_items,
                   compact, content, emails, llmCalls, fetchFailed, itemFailed,
                   lastOutcome, classified, onDiskAtStart, idVars>>

\* save_seen, second half: json.dump(sorted(list(seen)), f) and the close
SaveSeenDump ==
    /\ pc = "b_dump"
    /\ file' = FileWith(SavedText(seen))
    /\ pc' = "b_saved"
    /\ UNCHANGED <<mode, exit, idx, seen, seen0, new_items, all_items, news_items,
                   compact, content, emails, llmCalls, saveCalls, fetchFailed,
                   itemFailed, lastOutcome, classified, onDiskAtStart, idVars>>

\* the process is killed, or the write fails, between the open and the close
SaveSeenInterrupted ==
    /\ pc = "b_dump"
    /\ \E text \in PartialTexts(seen) : file' = FileWith(text)
    /\ pc' = "done"
    /\ exit' = "interrupted"
    /\ UNCHANGED <<mode, idx, seen, seen0, new_items, all_items, news_items,
                   compact, content, emails, llmCalls, saveCalls, fetchFailed,
                   itemFailed, lastOutcome, classified, onDiskAtStart, idVars>>

\* (variant) the empty list is not tested for and goes to the model
BreakingNoNewStillAnalyzes ==
    /\ pc = "b_saved"
    /\ new_items = <<>>
    /\ llmCalls' = llmCalls + 1
    /\ content' \in ModelTexts
    /\ pc' = "b_decide"
    /\ UNCHANGED <<file, mode, exit, idx, seen, seen0, new_items, all_items,
                   news_items, compact, emails, saveCalls, fetchFailed,
                   itemFailed, lastOutcome, classified, onDiskAtStart, idVars>>

\* if not new_items: return (lines 209-210)
BreakingNoNew ==
    /\ pc = "b_saved"
    /\ new_items = <<>>
    /\ pc' = "done"
    /\ exit' = "no_new"
    /\ UNCHANGED <<file, mode, idx, seen, seen0, new_items, all_items, news_items,
                   compact, content, emails, llmCalls, saveCalls, fetchFailed,
                   itemFailed, lastOutcome, classified, onDiskAtStart, idVars>>

\* new_items.sort(...) and llm_analyze(..., mode="breaking") (lines 212-213)
BreakingAnalyze ==
    /\ pc = "b_saved"
    /\ new_items # <<>>
    /\ new_items' = SortByDatetimeDesc(new_items)
    /\ llmCalls' = llmCalls + 1
    /\ news_items' = new_items'
    /\ compact' = Compact(new_items')
    /\ \/ /\ content' \in ModelTexts
          /\ pc' = "b_decide"
          /\ UNCHANGED exit
       \/ /\ pc' = "done"
          /\ exit' = "error"
          /\ UNCHANGED content
    /\ UNCHANGED <<file, mode, idx, seen, seen0, all_items, emails, saveCalls,
                   fetchFailed, itemFailed, lastOutcome, classified,
                   onDiskAtStart, idVars>>

\* the test of line 216
SaysNoAlert(text) == Contains(NO_ALERT, text) /\ ~Contains(ALERT, text)

\* lines 216-220: return without notifying, or send_email, which goes out
\* or raises
BreakingDecide ==
    /\ pc = "b_decide"
    /\ pc' = "done"
    /\ IF SaysNoAlert(content)
       THEN /\ exit' = "no_alert"
            /\ UNCHANGED emails
       ELSE \/ /\ emails' = emails + 1
               /\ exit' = "sent"
            \/ /\ exit' = "error"
               /\ UNCHANGED emails
    /\ UNCHANGED <<file, mode, idx, seen, seen0, new_items, all_items, news_items,
                   compact, content, llmCalls, saveCalls, fetchFailed,
                   itemFailed, lastOutcome, classified, onDiskAtStart, idVars>>

(***************************************************************************)
(* The program                                                             *)
(***************************************************************************)
NoItem == NewsItem(<<>>, <<>>, <<>>, <<>>)

IdFixed ==
    /\ itemA = NoItem
    /\ itemB = NoItem
    /\ idA = <<>>
    /\ idB = <<>>
    /\ idPhase = "off"

\* seen.json before the first run: absent, cut short, or an empty list
InitialFiles == {MissingFile, FileWith(<<LB>>), FileWith(JsonDump(<<>>))}

Init ==
    /\ file \in InitialFiles
    /\ mode = "none"
    /\ pc = "idle"
    /\ exit = "none"
    /\ idx = 1
    /\ seen = {}
    /\ seen0 = {}
    /\ new_items = <<>>
    /\ all_items = <<>>
    /\ news_items = <<>>
    /\ compact = <<>>
    /\ content = <<>>
    /\ emails = 0
    /\ llmCalls = 0
    /\ saveCalls = 0
    /\ fetchFailed = {}
    /\ itemFailed = {}
    /\ lastOutcome = "none"
    /\ classified = {}
    /\ onDiskAtStart = {}
    /\ IdFixed

Next ==
    \/ StartMisconfigured
    \/ StartDaily
    \/ StartBreaking
    \/ DailyFetch
    \/ DailyAnalyze
    \/ DailySend
    \/ BreakingFetch
    \/ SaveSeenOpen
    \/ SaveSeenDump
    \/ SaveSeenInterrupted
    \/ BreakingNoNew
    \/ BreakingAnalyze
    \/ BreakingDecide

Spec == Init /\ [][Next]_vars

(***************************************************************************)
(* item_id applied to two arbitrary items                                  *)
(***************************************************************************)
\* field values of the two items; "|" is the separator item_id inserts
SymbolValues == {<<>>, <<"A">>, <<"|">>}
DatetimeValues == {<<>>, <<"1">>, <<"|">>}
TextValues == StringsUpTo({"a", "|"}, MaxFieldLen)
ItemValues ==
    {NewsItem(t, h, d, u) :
        t \in SymbolValues, h \in TextValues, d \in DatetimeValues, u \in TextValues}

InitItemId ==
    /\ file = MissingFile
    /\ mode = "none"
    /\ pc = "idle"
    /\ exit = "none"
    /\ idx = 1
    /\ seen = {}
    /\ seen0 = {}
    /\ new_items = <<>>
    /\ all_items = <<>>
    /\ news_items = <<>>
    /\ compact = <<>>
    /\ content = <<>>
    /\ emails = 0
    /\ llmCalls = 0
    /\ saveCalls = 0
    /\ fetchFailed = {}
    /\ itemFailed = {}
    /\ lastOutcome = "none"
    /\ classified = {}
    /\ onDiskAtStart = {}
    /\ itemA \in ItemValues
    /\ itemB \in ItemValues
    /\ idA = <<>>
    /\ idB = <<>>
    /\ idPhase = "input"

HashItems ==
    /\ idPhase = "input"
    /\ idA' = item_id(itemA)
    /\ idB' = item_id(itemB)
    /\ idPhase' = "hashed"
    /\ UNCHANGED <<file, runVars, onDiskAtStart, itemA, itemB>>

NextItemId == HashItems

SpecItemId == InitItemId /\ [][NextItemId]_vars

\* breaking runs on days with bursts of news
NextBurst ==
    \/ StartBreaking
    \/ BreakingFetchBurst
    \/ SaveSeenOpen
    \/ SaveSeenDump
    \/ BreakingNoNew
    \/ BreakingAnalyze
    \/ BreakingDecide

SpecBurst == Init /\ [][NextBurst]_vars

(***************************************************************************)
(* Properties                                                              *)
(***************************************************************************)
Ids(list) == {item_id(list[i]) : i \in 1..Len(list)}
Symbols(list) == {list[i].symbol : i \in 1..Len(list)}
BreakingReturned == mode = "breaking" /\ pc = "done" /\ exit \in {"no_new", "no_alert", "sent"}
HasBar(s) == \E i \in 1..Len(s) : s[i] = "|"
SameFields(a, b) ==
    \A i \in 1..4 : a[FingerprintFields[i]] = b[FingerprintFields[i]]
BarFree(a) == ~HasBar(a.symbol) /\ ~HasBar(a.headline) /\ ~HasBar(a.datetime)

\* C1: an item whose fingerprint was in seen.json at the start of this run or
\* of an earlier run is never put into new_items (and so never reaches the
\* summarizer or an email)
C1_NeverRenotifiesPersisted ==
    mode = "breaking" => Ids(new_items) \cap onDiskAtStart = {}

\* C2: save_seen is called at most once per run, only after the loop over the
\* tickers has ended, and on every return of run_breaking it has been called
\* and seen.json holds every fingerprint classified in the run
C2_SavedOnceBeforeEveryReturn ==
    /\ saveCalls <= 1
    /\ saveCalls = 1 => idx = Len(Tickers) + 1
    /\ BreakingReturned =>
          /\ saveCalls = 1
          /\ load_seen(file) = seen
          /\ classified \subseteq load_seen(file)

C2_Witness ==
    BreakingReturned /\ exit = "sent" /\ classified # {} /\ saveCalls = 1

\* C3: a breaking run in which every classified fingerprint was already in the
\* loaded seen-set ends without a call of the summarizer and without an email,
\* after rewriting seen.json with the unchanged set
C3_NothingNewNoNotification ==
    (mode = "breaking" /\ pc = "done" /\ exit # "interrupted"
        /\ classified \subseteq seen0)
      => /\ exit = "no_new"
         /\ llmCalls = 0
         /\ emails = 0
         /\ saveCalls = 1
         /\ seen = seen0
         /\ file = FileWith(SavedText(seen0))

C3_Witness ==
    /\ mode = "breaking" /\ pc = "done" /\ exit = "no_new"
    /\ classified # {}
    /\ fetchFailed # {}

\* C4: a breaking run whose model text contains NO ALERT ends without an email
C4_NoAlertSendsNothing ==
    (mode = "breaking" /\ pc = "done" /\ Contains(NO_ALERT, content)) => emails = 0

\* C5: in a daily run every ticker whose fetch raised has its error item in
\* all_items, the run still fetches every ticker, and a run that the
\* summarizer and the mail transport let finish sends exactly one email whose
\* input holds those error items
C5_DailyFetchFailureIsReported ==
    mode = "daily" =>
      /\ \A t \in fetchFailed : ErrorItem(t) \in Range(all_items)
      /\ pc # "d_fetch" => idx = Len(Tickers) + 1
      /\ pc = "done" => exit \in {"daily_sent", "error"}
      /\ (pc = "done" /\ exit = "error") => llmCalls = 1
      /\ (pc = "done" /\ exit = "daily_sent") =>
            /\ emails = 1
            /\ llmCalls = 1
            /\ \A t \in fetchFailed : ErrorItem(t) \in Range(news_items)

C5_Witness ==
    /\ mode = "daily" /\ pc = "done" /\ exit = "daily_sent"
    /\ fetchFailed = {Tickers[1]}
    /\ Tickers[2] \in Symbols(news_items)

\* C6 (as stated): a ticker whose try block raised has no item in new_items
\* and no fingerprint among those classified
C6_RaisingTickerContributesNothing ==
    mode = "breaking" =>
      \A t \in fetchFailed \cup itemFailed : t \notin Symbols(new_items)

\* C6 (amended): a ticker whose finnhub_news call raised has no item in
\* new_items, no error item is synthesized, the fingerprints added to the
\* seen-set are exactly those of new_items, and the loop goes on to the end
C6_FailedFetchContributesNothing ==
    mode = "breaking" =>
      /\ \A t \in fetchFailed : t \notin Symbols(new_items)
      /\ \A i \in 1..Len(new_items) : new_items[i].category # ErrorCategory
      /\ seen = seen0 \cup Ids(new_items)
      /\ pc # "b_fetch" => idx = Len(Tickers) + 1

C6_Witness ==
    /\ mode = "breaking" /\ pc = "done"
    /\ fetchFailed = {Tickers[1]}
    /\ Symbols(new_items) = {Tickers[2]}

\* C7: after an interruption of save_seen, seen.json reads as the set loaded at
\* the start of the run or as the updated set
C7_WriteIsAtomic ==
    (mode = "breaking" /\ exit = "interrupted") => load_seen(file) \in {seen0, seen}

\* C8 (as stated): two items have the same fingerprint exactly when they agree
\* in symbol, headline, datetime and url
C8_FingerprintSeparatesFields ==
    idPhase = "hashed" => (SameFields(itemA, itemB) <=> idA = idB)

\* C8 (amended): items that agree in the four fields have the same
\* fingerprint, and items that differ in one of them have different
\* fingerprints when symbol, headline and datetime of both are free of "|"
C8_FingerprintSeparatesBarFreeFields ==
    idPhase = "hashed" =>
      /\ SameFields(itemA, itemB) => idA = idB
      /\ (BarFree(itemA) /\ BarFree(itemB) /\ ~SameFields(itemA, itemB)) => idA # idB

C8_Witness ==
    /\ idPhase = "hashed"
    /\ BarFree(itemA) /\ BarFree(itemB)
    /\ HasBar(itemA.url)
    /\ itemA.headline # itemB.headline
    /\ idA # idB

\* C9: what load_seen reads back after a completed save_seen is the set that
\* was saved, and a run that found seen.json missing or unparsable started
\* from the empty set
C9_SeenSetRoundTrip ==
    /\ (mode = "breaking" /\ pc \in {"b_saved", "b_decide"}) => load_seen(file) = seen
    /\ (mode = "breaking" /\ pc = "b_fetch" /\ (~file.exists \/ ~JsonIsList(file.text)))
          => seen0 = {}

C9_Witness ==
    mode = "breaking" /\ pc = "b_saved" /\ Cardinality(seen) >= 2 /\ load_seen(file) = seen

\* C10 (as stated): every fingerprint added to the seen-set in the run belongs
\* to an item of the batch sent to the model
C10_EveryNewItemGoesToModel ==
    (mode = "breaking" /\ llmCalls = 1) => seen \ seen0 \subseteq Ids(compact)

\* C10 (amended): after the save the persisted set is the loaded set united
\* with the classified fingerprints, new_items holds one item per classified
\* fingerprint that was not loaded, and the model gets the first PayloadLimit
\* items of the sorted new_items
C10_NewItemsUpToPayloadLimit ==
    (mode = "breaking" /\ (pc \in {"b_saved", "b_decide"} \/ BreakingReturned \/ llmCalls = 1))
      => /\ load_seen(file) = seen0 \cup classified
         /\ Ids(new_items) = classified \ seen0
         /\ Len(new_items) = Cardinality(classified \ seen0)
         /\ llmCalls = 1 =>
               /\ news_items = new_items
               /\ Len(compact) = Min(Len(new_items), PayloadLimit)
               /\ \A i \in 1..Len(compact) : compact[i] = new_items[i]
               /\ \A i \in 1..(Len(new_items) - 1) :
                     ~LexLess(DtKey(new_items[i]), DtKey(new_items[i + 1]))

C10_Witness ==
    /\ mode = "breaking" /\ llmCalls = 1 /\ pc = "done" /\ exit = "sent"
    /\ Len(new_items) > PayloadLimit
    /\ Len(compact) = PayloadLimit
    /\ seen0 # {}

====
